---- MODULE Spec2Model ----
(***************************************************************************)
(* Model of maze-rs (src/src/main.rs): Env::init, gen_maze (randomized     *)
(* iterative depth-first backtracker with an explicit stack),              *)
(* unvisited_neighbors, remove_wall, fill_rect, draw_maze and save_as_ppm. *)
(***************************************************************************)
EXTENDS Integers, Naturals, Sequences, FiniteSets, TLC

VARIABLES pc, grid, removed_walls, stack, row, col, target_row, target_col,
          ops, pixels, call, fy, fx, file, origin, dropped, returned

vars == <<pc, grid, removed_walls, stack, row, col, target_row, target_col,
          ops, pixels, call, fy, fx, file, origin, dropped, returned>>

\* `origin` and `dropped` are history of gen_maze that no action reads: the
\* position of the start cell (lines 146-147), and the positions of the cells
\* popped at line 159 and not pushed back (the `continue` of line 166).
\* `returned` holds the values of a call of unvisited_neighbors, `file` the
\* bytes of the output file.

(* ---------------- sizes ---------------- *)

\* const MAZE_SIZE: usize = 10, scaled down so that the runs can be enumerated
MAZE_SIZE == 3

OPEN_PATH_SIZE == 10

BORDER_THICKNESS == 1

SOLID_COLOR == 3319890

OPEN_COLOR == 0

IMG_SIZE == (MAZE_SIZE * OPEN_PATH_SIZE) + ((MAZE_SIZE + 1) * BORDER_THICKNESS)

\* the saturation point of the operation counter `ops` (above every value a run reaches)
OpsCap == 4 * MAZE_SIZE * MAZE_SIZE + 2

Coord == 0 .. (MAZE_SIZE - 1)

Px == 0 .. (IMG_SIZE - 1)

(* ---------------- data ---------------- *)

\* struct Cell
Cell(r, c, v) == [row |-> r, col |-> c, visited |-> v]

\* Cell::ind
Ind(cell) == cell.row * MAZE_SIZE + cell.col

\* enum NeighborDir without Center: the four entries of `directions`
Dirs == {"North", "South", "East", "West"}

\* every outcome of directions.shuffle(&mut rng)
Shuffles == {p \in Dirs \X Dirs \X Dirs \X Dirs : Cardinality({p[1], p[2], p[3], p[4]}) = 4}

\* Env::init: the grid
InitGrid == [r \in Coord |-> [c \in Coord |-> Cell(r, c, FALSE)]]

\* let mut pixels = [[0u32; IMG_SIZE]; IMG_SIZE];
InitPixels == [y \in Px |-> [x \in Px |-> 0]]

(* ---------------- unvisited_neighbors ---------------- *)

\* in_bound with the upper limit one too low
in_bound_short(val, low, high) == (val >= low) /\ (val < high - 1)

\* in_bound with the lower limit one too low
in_bound_low(val, low, high) == (val >= low - 1) /\ (val < high)

in_bound(val, low, high) == (val >= low) /\ (val < high)

\* the match of lines 109-115: the probed position for direction el
NewRow(r, el) == IF el = "North" THEN r - 1 ELSE IF el = "South" THEN r + 1 ELSE r

NewCol(c, el) == IF el = "West" THEN c - 1 ELSE IF el = "East" THEN c + 1 ELSE c

\* a Rust array index: panics when the index is outside the array
IndexOk(r, c) == r \in Coord /\ c \in Coord

\* the test of lines 117-119 without its third conjunct, !grid[..][..].visited
Probe_any(g, r, c, el) ==
    LET new_row == NewRow(r, el)
        new_col == NewCol(c, el)
    IN IF in_bound(new_row, 0, MAZE_SIZE) /\ in_bound(new_col, 0, MAZE_SIZE)
       THEN IF ~IndexOk(new_row, new_col) THEN "IndexPanic" ELSE "return"
       ELSE "next"

\* the test of one loop iteration (lines 106-121) for direction el: "return" when
\* the neighbor is in bounds and unvisited, "next" when the loop goes on,
\* "IndexPanic" for the bounds-check panic of grid[new_row][new_col]
Probe(g, r, c, el) ==
    LET new_row == NewRow(r, el)
        new_col == NewCol(c, el)
    IN IF in_bound(new_row, 0, MAZE_SIZE) /\ in_bound(new_col, 0, MAZE_SIZE)
       THEN IF ~IndexOk(new_row, new_col) THEN "IndexPanic"
            ELSE IF ~g[new_row][new_col].visited THEN "return" ELSE "next"
       ELSE "next"

\* Probe for the four directions (the grid does not change during the loop)
Probes(g, r, c) ==
    [North |-> Probe(g, r, c, "North"), South |-> Probe(g, r, c, "South"),
     East |-> Probe(g, r, c, "East"), West |-> Probe(g, r, c, "West")]

RECURSIVE NeighborScan(_, _, _)
\* the for loop of unvisited_neighbors from element i of the shuffled array
NeighborScan(probes, directions, i) ==
    IF i > 4 THEN "Center"
    ELSE LET el == directions[i]
         IN IF probes[el] = "IndexPanic" THEN "IndexPanic"
            ELSE IF probes[el] = "return" THEN el
            ELSE NeighborScan(probes, directions, i + 1)

\* unvisited_neighbors without the shuffle of line 100
unvisited_neighbors_unshuffled(g, r, c, directions) ==
    NeighborScan(Probes(g, r, c), <<"North", "South", "East", "West">>, 1)

\* unvisited_neighbors, with the outcome of directions.shuffle as a parameter
unvisited_neighbors(g, r, c, directions) == NeighborScan(Probes(g, r, c), directions, 1)

(* ---------------- remove_wall ---------------- *)

\* assert!(start.ind() != target.ind())
RemoveWallAssert(start, target) == Ind(start) # Ind(target)

WallKindOf(start, target) ==
    IF start.row - target.row # 0 THEN "Vertical" ELSE "Horizontal"

\* remove_wall that records only the walls whose expanding cell is the larger one
remove_wall_first_only(walls, start, target) ==
    LET row_diff == start.row - target.row
        col_diff == start.col - target.col
    IN IF row_diff > 0 \/ col_diff > 0
       THEN Append(walls, [start |-> target, target |-> start,
                           kind |-> WallKindOf(start, target)])
       ELSE walls

\* remove_wall with a second `if` in place of `else if`, its test not strict
remove_wall_twice(walls, start, target) ==
    LET row_diff == start.row - target.row
        col_diff == start.col - target.col
        kind == WallKindOf(start, target)
        first == IF row_diff > 0 \/ col_diff > 0
                 THEN Append(walls, [start |-> target, target |-> start, kind |-> kind])
                 ELSE walls
    IN IF row_diff <= 0 \/ col_diff <= 0
       THEN Append(first, [start |-> start, target |-> target, kind |-> kind])
       ELSE first

\* remove_wall that never swaps the two cells
remove_wall_unordered(walls, start, target) ==
    Append(walls, [start |-> start, target |-> target, kind |-> WallKindOf(start, target)])

remove_wall(walls, start, target) ==
    LET row_diff == start.row - target.row
        col_diff == start.col - target.col
        kind == WallKindOf(start, target)
    IN IF row_diff > 0 \/ col_diff > 0
       THEN Append(walls, [start |-> target, target |-> start, kind |-> kind])
       ELSE IF row_diff < 0 \/ col_diff < 0
       THEN Append(walls, [start |-> start, target |-> target, kind |-> kind])
       ELSE walls

(* ---------------- Stack ---------------- *)

\* Stack::push
Push(items, val) == Append(items, val)

\* a pop that returns the last item without taking it off
PopItemsPeek(items) == items

\* Stack::pop: the items left (the stack is never empty where gen_maze pops)
PopItems(items) == SubSeq(items, 1, Len(items) - 1)

\* Stack::pop: the value returned
PopVal(items) == items[Len(items)]

\* `ops` counts the calls of Stack::push and Stack::pop, saturating at OpsCap
Count(n, k) == IF n + k > OpsCap THEN OpsCap ELSE n + k

(* ---------------- gen_maze ---------------- *)

\* env.grid[row][col].visited = true that clears the flag of every other cell
MarkVisitedOnly(g, r, c) ==
    [rr \in Coord |-> [cc \in Coord |-> [g[rr][cc] EXCEPT !.visited = (rr = r /\ cc = c)]]]

\* env.grid[row][col].visited = true (lines 150 and 183)
MarkVisited(g, r, c) == [g EXCEPT ![r][c].visited = TRUE]

Init ==
    /\ pc = "start"
    /\ grid = InitGrid
    /\ removed_walls = <<>>
    /\ stack = <<>>
    /\ row = 0
    /\ col = 0
    /\ target_row = 0
    /\ target_col = 0
    /\ ops = 0
    /\ pixels = <<>>
    /\ call = 0
    /\ fy = 0
    /\ fx = 0
    /\ file = <<>>
    /\ origin = <<0, 0>>
    /\ dropped = {}
    /\ returned = <<>>

\* lines 146-155: random start cell, marked visited, pushed
GenStart ==
    /\ pc = "start"
    /\ \E r \in Coord, c \in Coord :
        /\ row' = r
        /\ col' = c
        /\ stack' = Push(stack, grid[r][c])
        /\ grid' = MarkVisited(grid, r, c)
        /\ origin' = <<r, c>>
    /\ ops' = Count(ops, 1)
    /\ pc' = "loop"
    /\ UNCHANGED <<removed_walls, target_row, target_col, dropped>>
    /\ UNCHANGED <<pixels, call, fy, fx, file, returned>>

\* lines 170-178. usize -= 1 at 0 overflows: a panic in a debug build, a wrapped
\* index and then the bounds-check panic of env.grid[..][..] in a release build;
\* the model keeps the mathematical value and panics on the index
TargetRow(r, d) == IF d = "North" THEN r - 1 ELSE IF d = "South" THEN r + 1 ELSE r

TargetCol(c, d) == IF d = "West" THEN c - 1 ELSE IF d = "East" THEN c + 1 ELSE c

\* every value unvisited_neighbors can return for the popped cell, over all shuffles
NeighborOutcomes(g, current) ==
    LET probes == Probes(g, current.row, current.col)
    IN {NeighborScan(probes, directions, 1) : directions \in Shuffles}

\* one iteration of `while stack.len() > 0` (lines 157-185)
GenStep ==
    /\ pc = "loop"
    /\ Len(stack) > 0
    /\ \E unvisited \in NeighborOutcomes(grid, PopVal(stack)) :
        LET current == PopVal(stack)
            popped == PopItems(stack)
            tr == TargetRow(current.row, unvisited)
            tc == TargetCol(current.col, unvisited)
        IN /\ row' = current.row
           /\ col' = current.col
           /\ IF unvisited = "IndexPanic"
              THEN /\ pc' = "panic"
                   /\ stack' = popped
                   /\ ops' = Count(ops, 1)
                   /\ UNCHANGED <<grid, removed_walls, target_row, target_col, dropped>>
              ELSE IF unvisited = "Center"
              THEN /\ pc' = "loop"
                   /\ stack' = popped
                   /\ ops' = Count(ops, 1)
                   /\ dropped' = dropped \cup {<<current.row, current.col>>}
                   /\ UNCHANGED <<grid, removed_walls, target_row, target_col>>
              ELSE IF ~IndexOk(tr, tc) \/ ~RemoveWallAssert(current, grid[tr][tc])
              THEN /\ pc' = IF ~IndexOk(tr, tc) THEN "panic" ELSE "assert"
                   /\ stack' = Push(popped, current)
                   /\ ops' = Count(ops, 2)
                   /\ target_row' = tr
                   /\ target_col' = tc
                   /\ UNCHANGED <<grid, removed_walls, dropped>>
              ELSE /\ pc' = "loop"
                   /\ target_row' = tr
                   /\ target_col' = tc
                   /\ removed_walls' = remove_wall(removed_walls, current, grid[tr][tc])
                   /\ grid' = MarkVisited(grid, tr, tc)
                   /\ stack' = Push(Push(popped, current), grid[tr][tc])
                   /\ ops' = Count(ops, 3)
                   /\ UNCHANGED dropped
    /\ UNCHANGED <<pixels, call, fy, fx, file, origin, returned>>

\* the loop condition fails: gen_maze returns to main, which allocates the
\* pixel buffer (lines 274-275)
GenReturn ==
    /\ pc = "loop"
    /\ Len(stack) = 0
    /\ pc' = "draw"
    /\ pixels' = InitPixels
    /\ UNCHANGED <<grid, removed_walls, stack, row, col, target_row, target_col, ops,
                   call, fy, fx, file, origin, dropped, returned>>

(* ---------------- fill_rect, draw_maze ---------------- *)

\* the two assertions of fill_rect
FillRectAssert(rx, ry, rw, rh) == (rx + rw <= IMG_SIZE) /\ (ry + rh <= IMG_SIZE)

\* the pixels fill_rect assigns, as <<y, x>>
RectPixels(rx, ry, rw, rh) ==
    {<<y, x>> : y \in ry .. (ry + rh - 1), x \in rx .. (rx + rw - 1)}

\* the loops of fill_rect
fill_rect(p, rx, ry, rw, rh, color) ==
    [y \in Px |-> [x \in Px |->
        IF (y >= ry) /\ (y < ry + rh) /\ (x >= rx) /\ (x < rx + rw)
        THEN color ELSE p[y][x]]]

\* a call of fill_rect inside draw_maze; d = [pixels, ok], ok = FALSE once an
\* assertion has failed (the process aborts, nothing more is drawn)
Fill(d, rx, ry, rw, rh, color) ==
    IF ~d.ok THEN d
    ELSE IF ~FillRectAssert(rx, ry, rw, rh) THEN [d EXCEPT !.ok = FALSE]
    ELSE [d EXCEPT !.pixels = fill_rect(d.pixels, rx, ry, rw, rh, color)]

\* x and y of lines 214-215 and 222-223
BorderX(c) == (c * OPEN_PATH_SIZE) + (c * BORDER_THICKNESS)

BorderY(r) == (r * OPEN_PATH_SIZE) + (r * BORDER_THICKNESS)

\* lines 212-218 with r in 0..=MAZE_SIZE in place of 0..MAZE_SIZE
VerticalCallsLong ==
    [k \in 1 .. ((MAZE_SIZE + 1) * (MAZE_SIZE + 1)) |->
        LET r == (k - 1) \div (MAZE_SIZE + 1)
            c == (k - 1) % (MAZE_SIZE + 1)
        IN [rx |-> BorderX(c), ry |-> BorderY(r), rw |-> BORDER_THICKNESS,
            rh |-> OPEN_PATH_SIZE + (2 * BORDER_THICKNESS), color |-> SOLID_COLOR]]

\* the fill_rect calls of lines 212-218 in call order: r in 0..MAZE_SIZE, c in 0..=MAZE_SIZE
VerticalCalls ==
    [k \in 1 .. (MAZE_SIZE * (MAZE_SIZE + 1)) |->
        LET r == (k - 1) \div (MAZE_SIZE + 1)
            c == (k - 1) % (MAZE_SIZE + 1)
        IN [rx |-> BorderX(c), ry |-> BorderY(r), rw |-> BORDER_THICKNESS,
            rh |-> OPEN_PATH_SIZE + (2 * BORDER_THICKNESS), color |-> SOLID_COLOR]]

\* lines 220-226 with r in 0..MAZE_SIZE in place of 0..=MAZE_SIZE
HorizontalCallsShort ==
    [k \in 1 .. (MAZE_SIZE * MAZE_SIZE) |->
        LET r == (k - 1) \div MAZE_SIZE
            c == (k - 1) % MAZE_SIZE
        IN [rx |-> BorderX(c), ry |-> BorderY(r),
            rw |-> OPEN_PATH_SIZE + (2 * BORDER_THICKNESS), rh |-> BORDER_THICKNESS,
            color |-> SOLID_COLOR]]

\* the fill_rect calls of lines 220-226 in call order: r in 0..=MAZE_SIZE, c in 0..MAZE_SIZE
HorizontalCalls ==
    [k \in 1 .. ((MAZE_SIZE + 1) * MAZE_SIZE) |->
        LET r == (k - 1) \div MAZE_SIZE
            c == (k - 1) % MAZE_SIZE
        IN [rx |-> BorderX(c), ry |-> BorderY(r),
            rw |-> OPEN_PATH_SIZE + (2 * BORDER_THICKNESS), rh |-> BORDER_THICKNESS,
            color |-> SOLID_COLOR]]

\* the rectangle draw_maze fills for one removed wall (lines 230-245)
WallRect(wall) ==
    IF wall.kind = "Vertical"
    THEN [rx |-> (wall.target.col * OPEN_PATH_SIZE) + (wall.target.col * BORDER_THICKNESS),
          ry |-> (wall.target.row * OPEN_PATH_SIZE) + (wall.target.row * BORDER_THICKNESS)
                 + BORDER_THICKNESS,
          rw |-> BORDER_THICKNESS, rh |-> OPEN_PATH_SIZE, color |-> OPEN_COLOR]
    ELSE [rx |-> (wall.target.col * OPEN_PATH_SIZE) + (wall.target.col * BORDER_THICKNESS)
                 + BORDER_THICKNESS,
          ry |-> (wall.target.row * OPEN_PATH_SIZE) + (wall.target.row * BORDER_THICKNESS),
          rw |-> OPEN_PATH_SIZE, rh |-> BORDER_THICKNESS, color |-> OPEN_COLOR]

\* the fill_rect calls of lines 229-246 in call order
WallCalls(walls) == [i \in 1 .. Len(walls) |-> WallRect(walls[i])]

\* every fill_rect call of draw_maze in call order
Calls(walls) == VerticalCalls \o HorizontalCalls \o WallCalls(walls)

RECURSIVE FillAll(_, _, _)
\* the calls from number i on, applied in order
FillAll(d, calls, i) ==
    IF i > Len(calls) THEN d
    ELSE LET q == calls[i]
         IN FillAll(Fill(d, q.rx, q.ry, q.rw, q.rh, q.color), calls, i + 1)

draw_maze(walls, p) == FillAll([pixels |-> p, ok |-> TRUE], Calls(walls), 1)

\* main, line 276: draw_maze(&env, &mut pixels)
DrawMaze ==
    /\ pc = "draw"
    /\ LET d == draw_maze(removed_walls, pixels)
       IN /\ pixels' = d.pixels
          /\ pc' = IF d.ok THEN "done" ELSE "panic"
    /\ UNCHANGED <<grid, removed_walls, stack, row, col, target_row, target_col, ops,
                   call, fy, fx, file, origin, dropped, returned>>

(* ---------------- save_as_ppm ---------------- *)

RECURSIVE Digits(_)
\* the ASCII codes of the decimal form of n, as `{}` formats a usize
Digits(n) == IF n < 10 THEN <<48 + n>> ELSE Digits(n \div 10) \o <<48 + (n % 10)>>

\* write!(&mut file, "P6\n{} {} 255\n", IMG_SIZE, IMG_SIZE) (line 256), as ASCII codes
Header ==
    <<80, 54, 10>> \o Digits(IMG_SIZE) \o <<32>> \o Digits(IMG_SIZE) \o <<32, 50, 53, 53, 10>>

\* lines 261-265: ((pixel >> 16) & 0xFF) as u8, ((pixel >> 8) & 0xFF) as u8,
\* ((pixel >> 0) & 0xFF) as u8 for a u32 pixel
color_components(pixel) ==
    <<(pixel \div 65536) % 256, (pixel \div 256) % 256, pixel % 256>>

\* the number of the last pixels of the image at whose write (line 266) the
\* model lets File::write take fewer bytes than offered, or fail
MaxShort == 2

\* the pixels (numbered from 1 in write order) whose write may fall short or fail
ShortAt == {k \in 1 .. (IMG_SIZE * IMG_SIZE) : k > (IMG_SIZE * IMG_SIZE) - MaxShort}

\* what the file system does to the writes of one call of save_as_ppm. res is
\* the result of File::write for pixel number `at`: Ok(res) with res < 3 bytes
\* taken (Write::write may take only a part of the buffer), or an error for
\* res = -1; at = 0 with res = -1 is an error before the pixel loop (lines
\* 252-256). Every other write takes its 3 bytes
WriteOutcomes ==
    {[at |-> 0, res |-> 3]}
        \cup {[at |-> k, res |-> n] : k \in ShortAt, n \in 0 .. 2}
        \cup {[at |-> k, res |-> -1] : k \in ShortAt \cup {0}}

\* the bytes File::write appends for pixel number k; the code ignores the count
\* Ok carries (line 266)
Written(buf, k, outcome) ==
    IF k = outcome.at THEN SubSeq(buf, 1, outcome.res) ELSE buf

\* save_as_ppm gets past pixel number k: its write did not return an error
WriteOk(k, outcome) == ~(k = outcome.at /\ outcome.res = -1)

RECURSIVE RowBytes(_, _, _, _)
\* the inner loop (line 258) of row y from column x on: the bytes appended, up
\* to a write that fails
RowBytes(p, y, x, outcome) ==
    IF x >= IMG_SIZE THEN <<>>
    ELSE IF ~WriteOk((y * IMG_SIZE) + x + 1, outcome) THEN <<>>
    ELSE Written(color_components(p[y][x]), (y * IMG_SIZE) + x + 1, outcome)
             \o RowBytes(p, y, x + 1, outcome)

RECURSIVE BodyBytes(_, _, _)
\* the outer loop (line 257) from row y on
BodyBytes(p, y, outcome) ==
    IF y >= IMG_SIZE THEN <<>>
    ELSE IF outcome.res = -1 /\ outcome.at >= 1 /\ (outcome.at - 1) \div IMG_SIZE = y
    THEN RowBytes(p, y, 0, outcome)
    ELSE RowBytes(p, y, 0, outcome) \o BodyBytes(p, y + 1, outcome)

\* main, lines 277-278: save_as_ppm(&pixels, "out.ppm"); an Err makes main panic
SaveAsPpm ==
    /\ pc = "done"
    /\ \E outcome \in WriteOutcomes :
        IF outcome.at = 0 /\ outcome.res = -1
        THEN /\ file' = <<>>
             /\ pc' = "panic"
        ELSE /\ file' = Header \o BodyBytes(pixels, 0, outcome)
             /\ pc' = IF outcome.res = -1 THEN "panic" ELSE "exit"
    /\ UNCHANGED <<grid, removed_walls, stack, row, col, target_row, target_col, ops,
                   pixels, call, fy, fx, origin, dropped, returned>>

\* gen_maze alone
NextGen == GenStart \/ GenStep \/ GenReturn

SpecGen == Init /\ [][NextGen]_vars

\* main: Env::init, gen_maze, draw_maze, save_as_ppm
Next == GenStart \/ GenStep \/ GenReturn \/ DrawMaze \/ SaveAsPpm

Spec == Init /\ [][Next]_vars

\* main is one sequential thread: gen_maze takes its next step while it has one
FairSpec == Init /\ [][NextGen]_vars /\ WF_vars(NextGen)

(* ---------------- draw_maze in isolation, pixel by pixel ---------------- *)

\* Env::init() followed directly by draw_maze on the buffer of line 275, gen_maze
\* not run: fill_rect call number `call` is about to assign pixels[fy][fx]
InitRender ==
    /\ pc = "fill"
    /\ grid = InitGrid
    /\ removed_walls = <<>>
    /\ stack = <<>>
    /\ row = 0
    /\ col = 0
    /\ target_row = 0
    /\ target_col = 0
    /\ ops = 0
    /\ pixels = InitPixels
    /\ call = 1
    /\ fy = Calls(<<>>)[1].ry
    /\ fx = Calls(<<>>)[1].rx
    /\ file = <<>>
    /\ origin = <<0, 0>>
    /\ dropped = {}
    /\ returned = <<>>

\* one iteration of the inner loop of fill_rect (line 203) and the loop
\* bookkeeping up to the next assignment; every rectangle of draw_maze has at
\* least one pixel (BORDER_THICKNESS, OPEN_PATH_SIZE >= 1)
FillPixel ==
    /\ pc = "fill"
    /\ LET calls == Calls(removed_walls)
           q == calls[call]
       IN IF ~FillRectAssert(q.rx, q.ry, q.rw, q.rh)
          THEN /\ pc' = "panic"
               /\ UNCHANGED <<pixels, call, fy, fx>>
          ELSE /\ pixels' = [pixels EXCEPT ![fy][fx] = q.color]
               /\ IF fx + 1 < q.rx + q.rw
                  THEN /\ fx' = fx + 1
                       /\ UNCHANGED <<pc, call, fy>>
                  ELSE IF fy + 1 < q.ry + q.rh
                  THEN /\ fx' = q.rx
                       /\ fy' = fy + 1
                       /\ UNCHANGED <<pc, call>>
                  ELSE IF call < Len(calls)
                  THEN /\ call' = call + 1
                       /\ fy' = calls[call + 1].ry
                       /\ fx' = calls[call + 1].rx
                       /\ UNCHANGED pc
                  ELSE /\ pc' = "done"
                       /\ UNCHANGED <<call, fy, fx>>
    /\ UNCHANGED <<grid, removed_walls, stack, row, col, target_row, target_col, ops,
                   file, origin, dropped, returned>>

NextRender == FillPixel

SpecRender == InitRender /\ [][NextRender]_vars

(* ---------------- the graph of removed walls ---------------- *)

Pos == Coord \X Coord

PosOf(cell) == <<cell.row, cell.col>>

\* the removed walls as undirected edges between grid positions
Edges(walls) == {{PosOf(walls[i].start), PosOf(walls[i].target)} : i \in 1 .. Len(walls)}

\* the positions joined to a by an edge of E
Neighbours(E, a) == (UNION {e \in E : a \in e}) \ {a}

RECURSIVE Reach(_, _)
\* the positions connected to the set S through edges of E
Reach(E, S) ==
    LET T == S \cup UNION {e \in E : e \cap S # {}}
    IN IF T = S THEN S ELSE Reach(E, T)

RECURSIVE PathEnds(_, _, _)
RECURSIVE PathEndsVia(_, _, _)
\* the end points of all simple paths over E that start at cur and avoid the
\* positions in seen, one entry per path (the path of length 0 included)
PathEnds(E, cur, seen) == <<cur>> \o PathEndsVia(E, Neighbours(E, cur) \ seen, seen)

PathEndsVia(E, S, seen) ==
    IF S = {} THEN <<>>
    ELSE LET n == CHOOSE m \in S : TRUE
         IN PathEnds(E, n, seen \cup {n}) \o PathEndsVia(E, S \ {n}, seen)

\* between every two positions there is exactly one simple path over E
UniquePaths(E) ==
    \A a \in Pos :
        LET ends == PathEnds(E, a, {a})
        IN /\ Len(ends) = Cardinality(Pos)
           /\ {ends[i] : i \in 1 .. Len(ends)} = Pos

\* gen_maze has returned
Terminated == pc \in {"draw", "done"}

\* the loop of gen_maze has run and the frontier stack is empty
StackEmptied == pc \in {"loop", "draw", "done"} /\ Len(stack) = 0

AllVisited == \A r \in Coord, c \in Coord : grid[r][c].visited

(* ---------------- claims ---------------- *)

\* C1: when gen_maze terminates, the graph of all N*N cells with the removed
\* walls as edges is connected, has exactly N*N-1 edges and no cycle (no wall
\* from a cell to itself, no two walls between the same cells, no two simple
\* paths between the same cells), and every pair of cells is joined by exactly
\* one simple path
C1_SpanningTree ==
    Terminated =>
        LET E == Edges(removed_walls)
        IN /\ Len(removed_walls) = MAZE_SIZE * MAZE_SIZE - 1
           /\ Cardinality(E) = MAZE_SIZE * MAZE_SIZE - 1
           /\ \A e \in E : Cardinality(e) = 2
           /\ Reach(E, {<<0, 0>>}) = Pos
           /\ UniquePaths(E)

\* a finished maze whose tree branches: some cell has three removed walls
C1_Witness ==
    /\ pc = "draw"
    /\ \E a \in Pos : Cardinality({e \in Edges(removed_walls) : a \in e}) >= 3

\* C2: whenever the frontier stack has become empty, every cell of the grid is visited
C2_AllVisitedAtEnd == StackEmptied => AllVisited

\* the loop head with an empty stack and every cell visited, before gen_maze returns
C2_Witness == pc = "loop" /\ Len(stack) = 0 /\ AllVisited

\* C3: every run of gen_maze reaches a state with an empty frontier stack
C3_Terminates == <>(pc = "loop" /\ Len(stack) = 0)

\* the loop ends after the start cell itself was the last one popped
C3_Witness == pc = "loop" /\ Len(stack) = 0 /\ Len(removed_walls) > 0

\* C4 as stated: pushes plus pops never exceed 2*N*N
C4_AtMost2NN == ops <= 2 * MAZE_SIZE * MAZE_SIZE

\* C4 amended: pushes plus pops never exceed 4*N*N-2, and a completed run
\* has performed exactly that many
C4_AtMost4NN ==
    /\ ops <= 4 * MAZE_SIZE * MAZE_SIZE - 2
    /\ StackEmptied => ops = 4 * MAZE_SIZE * MAZE_SIZE - 2

\* gen_maze has returned after 4*N*N-2 stack operations
C4_Witness == pc = "draw" /\ Len(stack) = 0 /\ ops = 4 * MAZE_SIZE * MAZE_SIZE - 2

\* C5: the removed-wall list never holds more than N*N-1 entries and the
\* frontier stack never more than N*N
C5_Bounded ==
    /\ Len(removed_walls) <= MAZE_SIZE * MAZE_SIZE - 1
    /\ Len(stack) <= MAZE_SIZE * MAZE_SIZE

\* both limits are met at once: the search walked through all cells without backtracking
C5_Witness ==
    /\ Len(removed_walls) = MAZE_SIZE * MAZE_SIZE - 1
    /\ Len(stack) = MAZE_SIZE * MAZE_SIZE

InteriorFrom(k) == (k * (OPEN_PATH_SIZE + BORDER_THICKNESS)) + BORDER_THICKNESS

\* the first pixel of the border line before cell line k
BorderFrom(k) == k * (OPEN_PATH_SIZE + BORDER_THICKNESS)

\* the BORDER-thick, OPEN-long piece of border between the interiors of s and t
SharedBoundary(s, t) ==
    IF s.row # t.row
    THEN LET lo == IF s.row > t.row THEN s.row ELSE t.row
         IN {<<y, x>> : y \in BorderFrom(lo) .. (BorderFrom(lo) + BORDER_THICKNESS - 1),
                        x \in InteriorFrom(s.col) .. (InteriorFrom(s.col) + OPEN_PATH_SIZE - 1)}
    ELSE LET lo == IF s.col > t.col THEN s.col ELSE t.col
         IN {<<y, x>> : y \in InteriorFrom(s.row) .. (InteriorFrom(s.row) + OPEN_PATH_SIZE - 1),
                        x \in BorderFrom(lo) .. (BorderFrom(lo) + BORDER_THICKNESS - 1)}

\* the pixels draw_maze overwrites for one wall
OpenedBy(wall) ==
    LET q == WallRect(wall) IN RectPixels(q.rx, q.ry, q.rw, q.rh)

\* C8: the pixels draw_maze opens for a recorded wall (Vertical when the rows
\* differ, Horizontal when the cols differ) are exactly the piece of border on
\* the shared boundary of its two cells
C8_OpensSharedBoundary ==
    (pc = "done") =>
        \A i \in 1 .. Len(removed_walls) :
            LET w == removed_walls[i]
            IN /\ w.kind = (IF w.start.row # w.target.row THEN "Vertical" ELSE "Horizontal")
               /\ OpenedBy(w) = SharedBoundary(w.start, w.target)
               /\ \A q \in OpenedBy(w) : pixels[q[1]][q[2]] = OPEN_COLOR

\* a pixel on one of the border lines of the grid
IsBorder(y, x) ==
    \/ x % (OPEN_PATH_SIZE + BORDER_THICKNESS) < BORDER_THICKNESS
    \/ y % (OPEN_PATH_SIZE + BORDER_THICKNESS) < BORDER_THICKNESS

NoWallsDrawn == pc = "done" /\ removed_walls = <<>>

\* the pixel-by-pixel run ends with the buffer draw_maze computes as a whole
RenderAgrees == (pc = "done") => pixels = draw_maze(removed_walls, InitPixels).pixels

\* C9 as stated: with no removed wall, every border pixel has the wall color
\* and no pixel of the buffer has the open color
C9_NoOpenPixel ==
    NoWallsDrawn =>
        /\ \A y \in Px, x \in Px : IsBorder(y, x) => pixels[y][x] = SOLID_COLOR
        /\ \A y \in Px, x \in Px : pixels[y][x] # OPEN_COLOR

\* C9 amended: with no removed wall, every border pixel has the wall color and
\* every other pixel still holds the 0 main filled the buffer with, which is
\* the open color; so no border pixel has the open color
C9_BordersSolid ==
    NoWallsDrawn =>
        \A y \in Px, x \in Px :
            pixels[y][x] = (IF IsBorder(y, x) THEN SOLID_COLOR ELSE 0)

\* draw_maze has finished on an environment without removed walls
C9_Witness == NoWallsDrawn /\ pixels[0][0] = SOLID_COLOR /\ pixels[1][1] = OPEN_COLOR

\* C10: no grid access of generation is out of bounds: no index panics, and the
\* target position gen_maze computes lies inside the grid
C10_InBounds ==
    /\ pc # "panic"
    /\ target_row \in Coord
    /\ target_col \in Coord

\* an expansion from the corner (0, N-1), where North and East leave the grid
C10_Witness ==
    /\ pc = "loop"
    /\ Len(removed_walls) > 0
    /\ row = 0
    /\ col = MAZE_SIZE - 1
    /\ <<target_row, target_col>> \in {<<1, MAZE_SIZE - 1>>, <<0, MAZE_SIZE - 2>>}
    /\ Len(stack) >= 2
    /\ PosOf(stack[Len(stack)]) = <<target_row, target_col>>

\* C12: remove_wall is never called with start and target the same cell (its
\* assertion never fails), no recorded wall joins a cell to itself, and no two
\* recorded walls join the same unordered pair of cells
C12_NoSelfOrDuplicateWall ==
    /\ pc # "assert"
    /\ \A i \in 1 .. Len(removed_walls) :
           PosOf(removed_walls[i].start) # PosOf(removed_walls[i].target)
    /\ Cardinality(Edges(removed_walls)) = Len(removed_walls)

\* every wall of the maze is recorded and the search has backtracked at least once
C12_Witness ==
    /\ pc = "loop"
    /\ Len(removed_walls) = MAZE_SIZE * MAZE_SIZE - 1
    /\ Len(stack) > 0
    /\ Len(stack) < MAZE_SIZE * MAZE_SIZE

\* the positions of the cells whose visited flag is set in the grid
VisitedSet == {p \in Pos : grid[p[1]][p[2]].visited}

\* C13: the visited flag is false for every cell after Env::init, and no step
\* sets a flag that is true back to false
C13_VisitedMonotone ==
    /\ \A r \in Coord, c \in Coord : ~grid[r][c].visited
    /\ [][\A r \in Coord, c \in Coord : grid[r][c].visited => grid'[r][c].visited]_vars

\* the flag of the start cell, the first one set, is still set when the last
\* cell has been marked
C13_Witness ==
    /\ pc = "loop"
    /\ grid[origin[1]][origin[2]].visited
    /\ VisitedSet = Pos
    /\ Len(stack) > 0

(* ---------------- unvisited_neighbors in isolation ---------------- *)

\* the largest number of visited cells in the grids unvisited_neighbors is applied to
MaxVisited == 4

\* the grid of Env::init with the cells at the positions V marked visited
GridWith(V) == [r \in Coord |-> [c \in Coord |-> Cell(r, c, <<r, c>> \in V)]]

\* a call of unvisited_neighbors is about to be made on a grid with at most
\* MaxVisited visited cells
InitNeighbors ==
    /\ pc = "call"
    /\ grid \in {GridWith(V) : V \in {S \in SUBSET Pos : Cardinality(S) <= MaxVisited}}
    /\ removed_walls = <<>>
    /\ stack = <<>>
    /\ row = 0
    /\ col = 0
    /\ target_row = 0
    /\ target_col = 0
    /\ ops = 0
    /\ pixels = <<>>
    /\ call = 0
    /\ fy = 0
    /\ fx = 0
    /\ file = <<>>
    /\ origin = <<0, 0>>
    /\ dropped = {}
    /\ returned = <<>>

\* unvisited_neighbors(&grid, row, col) for a position of the grid: `returned`
\* maps every outcome of the shuffle of line 100 to the value the call returns
CallNeighbors ==
    /\ pc = "call"
    /\ \E r \in Coord, c \in Coord :
        /\ row' = r
        /\ col' = c
        /\ returned' = [directions \in Shuffles |-> unvisited_neighbors(grid, r, c, directions)]
    /\ pc' = "returned"
    /\ UNCHANGED <<grid, removed_walls, stack, target_row, target_col, ops, pixels,
                   call, fy, fx, file, origin, dropped>>

NextNeighbors == CallNeighbors

SpecNeighbors == InitNeighbors /\ [][NextNeighbors]_vars

\* the cell one step from (r, c) in direction d lies in the grid and is not visited
Qualifies(g, r, c, d) ==
    LET nr == r + (CASE d = "North" -> -1 [] d = "South" -> 1 [] OTHER -> 0)
        nc == c + (CASE d = "West" -> -1 [] d = "East" -> 1 [] OTHER -> 0)
    IN /\ nr >= 0 /\ nr < MAZE_SIZE
       /\ nc >= 0 /\ nc < MAZE_SIZE
       /\ ~g[nr][nc].visited

\* C14: for every grid, position and permutation of the four directions,
\* unvisited_neighbors returns the first direction of the permutation whose
\* target lies in the grid and is not visited, and Center exactly when no
\* direction has such a target
C14_FirstQualifying ==
    (pc = "returned") =>
        \A directions \in Shuffles :
            LET good == {i \in 1 .. 4 : Qualifies(grid, row, col, directions[i])}
            IN /\ (good # {}) =>
                      /\ returned[directions] = directions[CHOOSE i \in good : \A j \in good : i <= j]
                      /\ returned[directions] # "Center"
               /\ (good = {}) => returned[directions] = "Center"

\* a call for the corner (0, 0) whose permutation starts with North, which
\* leaves the grid, then South, whose cell is visited, and returns East
C14_Witness ==
    /\ pc = "returned"
    /\ row = 0
    /\ col = 0
    /\ grid[1][0].visited
    /\ ~grid[0][1].visited
    /\ returned[<<"North", "South", "East", "West">>] = "East"

\* the two end positions of a recorded wall
Ends(wall) == {PosOf(wall.start), PosOf(wall.target)}

RECURSIVE Discovery(_, _, _)
\* for the walls from number i on, in recording order: the end positions of
\* each wall that are not in `known`, the start cell and the ends of the walls before it
Discovery(walls, i, known) ==
    IF i > Len(walls) THEN <<>>
    ELSE <<Ends(walls[i]) \ known>> \o Discovery(walls, i + 1, known \cup Ends(walls[i]))

\* C15: a wall is recorded exactly when generation moves to an unvisited cell:
\* a step that appends a wall appends exactly one, whose ends are the popped
\* cell (visited in the grid) and a cell unvisited before the step and visited
\* after it; the start cell becomes visited without a wall and every other cell
\* only in such a step; so every recorded wall has exactly one newly discovered
\* end, never the start cell, and these ends are the visited cells other than
\* the start cell
C15_WallPerDiscovery ==
    [][\A newly \in {{p \in Pos : ~grid[p[1]][p[2]].visited /\ grid'[p[1]][p[2]].visited}} :
        IF pc = "start"
        THEN /\ removed_walls' = removed_walls
             /\ newly = {origin'}
        ELSE /\ IF removed_walls' # removed_walls
                THEN /\ Len(removed_walls') = Len(removed_walls) + 1
                     /\ SubSeq(removed_walls', 1, Len(removed_walls)) = removed_walls
                     /\ Len(stack) > 0
                     /\ \A current \in {PosOf(PopVal(stack))} :
                            /\ grid[current[1]][current[2]].visited
                            /\ Cardinality(newly) = 1
                            /\ current \notin newly
                            /\ Ends(removed_walls'[Len(removed_walls')]) = {current} \cup newly
                ELSE newly = {}
             /\ \A found \in {Discovery(removed_walls', 1, {origin'})} :
                    /\ \A i \in 1 .. Len(found) : Cardinality(found[i]) = 1
                    /\ UNION {found[i] : i \in 1 .. Len(found)}
                           = {p \in Pos : grid'[p[1]][p[2]].visited} \ {origin'}]_vars

\* after a backtrack, a wall was recorded from an older cell of the stack to a
\* cell that is now visited and on top of the stack
C15_Witness ==
    /\ pc = "loop"
    /\ dropped # {}
    /\ Len(removed_walls) > 0
    /\ Len(stack) >= 2
    /\ Ends(removed_walls[Len(removed_walls)]) = {<<row, col>>, <<target_row, target_col>>}
    /\ PosOf(stack[Len(stack)]) = <<target_row, target_col>>
    /\ PosOf(stack[Len(stack) - 1]) = <<row, col>>
    /\ grid[target_row][target_col].visited

\* C16: a loop iteration leaves the popped cell off the stack only when no
\* orthogonal neighbor of it inside the grid is unvisited; every other
\* iteration pushes the popped cell back and the newly visited cell on top of
\* it; and no cell that was left off appears on the stack again
C16_DropOnlyDeadEnds ==
    [][(pc = "loop" /\ Len(stack) > 0) =>
        \A current \in {PopVal(stack)} :
            /\ IF stack' = PopItems(stack)
               THEN \A d \in Dirs : ~Qualifies(grid, current.row, current.col, d)
               ELSE /\ Len(stack') = Len(stack) + 1
                    /\ SubSeq(stack', 1, Len(stack)) = stack
                    /\ \A t \in {PosOf(stack'[Len(stack')])} :
                           /\ ~grid[t[1]][t[2]].visited
                           /\ grid'[t[1]][t[2]].visited
            /\ \A i \in 1 .. Len(stack') : PosOf(stack'[i]) \notin dropped']_vars

\* a dead end before the maze is complete: the popped cell was left off while
\* other cells are still unvisited, and the stack goes on below it
C16_Witness ==
    /\ pc = "loop"
    /\ <<row, col>> \in dropped
    /\ Len(stack) > 0
    /\ VisitedSet # Pos
    /\ \A i \in 1 .. Len(stack) : PosOf(stack[i]) # <<row, col>>

\* C17: both assertions of fill_rect hold on every call draw_maze makes for a
\* generated maze, the border rectangles and the rectangle of every recorded
\* wall, and every rectangle lies inside the pixel buffer: no call aborts and
\* none writes outside the buffer
C17_FillRectInBuffer ==
    (pc = "draw") =>
        \A calls \in {Calls(removed_walls)} :
            \A k \in 1 .. Len(calls) :
                /\ FillRectAssert(calls[k].rx, calls[k].ry, calls[k].rw, calls[k].rh)
                /\ calls[k].rx >= 0
                /\ calls[k].ry >= 0
                /\ calls[k].rx + calls[k].rw - 1 \in Px
                /\ calls[k].ry + calls[k].rh - 1 \in Px

\* a finished maze with walls whose rectangles end one border short of the
\* right and of the bottom edge of the image
C17_Witness ==
    /\ pc = "draw"
    /\ \E i \in 1 .. Len(removed_walls) :
           WallRect(removed_walls[i]).rx + WallRect(removed_walls[i]).rw
               = IMG_SIZE - BORDER_THICKNESS
    /\ \E i \in 1 .. Len(removed_walls) :
           WallRect(removed_walls[i]).ry + WallRect(removed_walls[i]).rh
               = IMG_SIZE - BORDER_THICKNESS

\* C18: at every loop head of gen_maze the recorded walls form a tree over
\* exactly the visited cells: there is one wall less than there are visited
\* cells, both ends of every wall are visited, and every visited cell is
\* connected to the start cell through recorded walls (each wall, in recording
\* order, joins one more cell to the cells already connected to the start cell,
\* and these are all visited cells)
C18_TreeOverVisited ==
    (pc = "loop") =>
        \A visited \in {VisitedSet} :
            /\ Len(removed_walls) = Cardinality(visited) - 1
            /\ \A i \in 1 .. Len(removed_walls) : Ends(removed_walls[i]) \subseteq visited
            /\ origin \in visited
            /\ \A found \in {Discovery(removed_walls, 1, {origin})} :
                   /\ \A i \in 1 .. Len(found) : Cardinality(found[i]) = 1
                   /\ {origin} \cup UNION {found[i] : i \in 1 .. Len(found)} = visited

\* a loop head in the middle of a run: the tree branches at some cell and
\* some cell of the grid is not yet part of it
C18_Witness ==
    /\ pc = "loop"
    /\ Len(stack) > 0
    /\ VisitedSet # Pos
    /\ \E a \in Pos : Cardinality({i \in 1 .. Len(removed_walls) : a \in Ends(removed_walls[i])}) >= 3

\* C19: at every loop head of gen_maze the stack is a simple path from the
\* start cell: its first entry is the start cell, its entries have pairwise
\* different positions, each visited in the grid, and every two consecutive
\* entries are orthogonally adjacent cells joined by a recorded wall
C19_StackIsPath ==
    (pc = "loop") =>
        /\ (Len(stack) > 0) => PosOf(stack[1]) = origin
        /\ Cardinality({PosOf(stack[i]) : i \in 1 .. Len(stack)}) = Len(stack)
        /\ \A i \in 1 .. Len(stack) : grid[stack[i].row][stack[i].col].visited
        /\ \A E \in {Edges(removed_walls)} :
               \A i \in 1 .. (Len(stack) - 1) :
                   /\ {PosOf(stack[i]), PosOf(stack[i + 1])} \in E
                   /\ \/ (stack[i].row = stack[i + 1].row)
                            /\ (stack[i].col - stack[i + 1].col \in {-1, 1})
                      \/ (stack[i].col = stack[i + 1].col)
                            /\ (stack[i].row - stack[i + 1].row \in {-1, 1})

\* a loop head after a backtrack: the stack is a path of at least three cells
\* that ends at a cell reached from an older cell of the path
C19_Witness ==
    /\ pc = "loop"
    /\ dropped # {}
    /\ Len(stack) >= 3
    /\ PosOf(stack[1]) = origin
    /\ grid[stack[Len(stack)].row][stack[Len(stack)].col].visited
    /\ VisitedSet # Pos

\* C20: after draw_maze has rendered a generated maze, every pixel of row 0,
\* row IMG_SIZE-1, column 0 and column IMG_SIZE-1 has the wall color: no
\* recorded wall opens a piece of the outer border
C20_FrameClosed ==
    (pc = "done") =>
        \A k \in Px :
            /\ pixels[0][k] = SOLID_COLOR
            /\ pixels[IMG_SIZE - 1][k] = SOLID_COLOR
            /\ pixels[k][0] = SOLID_COLOR
            /\ pixels[k][IMG_SIZE - 1] = SOLID_COLOR

\* the bytes of the three color channels of the packed value 0xRRGGBB
Channels(pixel) == <<(pixel \div (2 ^ 16)) % (2 ^ 8), (pixel \div (2 ^ 8)) % (2 ^ 8), pixel % (2 ^ 8)>>

\* the file is the header followed by IMG_SIZE*IMG_SIZE*3 bytes, the pixels in
\* row-major order, each as its red, green and blue byte
WellFormedPpm ==
    /\ Len(file) = Len(Header) + (IMG_SIZE * IMG_SIZE * 3)
    /\ SubSeq(file, 1, Len(Header)) = Header
    /\ \A y \in Px, x \in Px :
           SubSeq(file, Len(Header) + (3 * ((y * IMG_SIZE) + x)) + 1,
                        Len(Header) + (3 * ((y * IMG_SIZE) + x)) + 3)
               = Channels(pixels[y][x])

\* C11: when save_as_ppm returns Ok, the file holds the header followed by
\* exactly IMG_SIZE*IMG_SIZE pixels in row-major order, each as 3 bytes, bits
\* 16-23, 8-15 and 0-7 of the packed value: a body of IMG_SIZE*IMG_SIZE*3 bytes
C11_PpmBody == (pc = "exit") => WellFormedPpm

\* when every call of File::write took its whole buffer, the file is as C11 says
FullWritesEncode ==
    (pc = "exit" /\ Len(file) = Len(Header) + (IMG_SIZE * IMG_SIZE * 3)) => WellFormedPpm

====
